---- MODULE Spec2Model ----
(***************************************************************************)
(* Model of SCs_Streamlit_app.py: one Streamlit script that is executed    *)
(* top to bottom on every user interaction (a "pass").                     *)
(*                                                                         *)
(* Units.  Masses are whole kg/m3.  Specific gravities are hundredths      *)
(* (265 is 2.65).  Exposure times are tenths of a year (5 is 0.5 years).   *)
(* A predictor result of k ten-thousandths of a % mass (1234 is 0.1234) is  *)
(* the float nearest to k/10000 in the predictor's result type.            *)
(*                                                                         *)
(* water_binder_ratio is the exact fraction <<n, d>> in lowest terms of    *)
(* two whole numbers.  The double the code computes is the one nearest to  *)
(* that fraction, and for whole masses below 2^26 two fractions are equal, *)
(* or ordered, exactly when their doubles are; 3/10 and 7/10 stand for the *)
(* literals 0.3 and 0.7 in the same way.                                   *)
(*                                                                         *)
(* volume is a sum of rounded quotients, so it is computed in IEEE 754     *)
(* binary64, round to nearest even.  A float is <<e, m>>: the value        *)
(* m * 2^e, m a natural number of exactly 53 bits held as a sequence of    *)
(* limbs, least significant first; <<0, <<>>>> is 0.0.  What sum() returns  *)
(* for floats depends on the interpreter that runs the script: CPython up  *)
(* to 3.11 adds them left to right, CPython from 3.12 on adds them with a  *)
(* compensation for the bits lost (Neumaier).  The interpreter is chosen   *)
(* when the process starts and is either of the two.                       *)
(***************************************************************************)
EXTENDS Integers, Sequences, FiniteSets, TLC

VARIABLES
    pc,                      \* position of the script
    model,                   \* the predictor loaded at process start (l.13-14)
    summation,               \* how the interpreter's sum() adds floats (l.110)
    rowOrder,                \* insertion order of the row mapping (l.150-166)
    input_data,              \* component name -> mass (l.85, 91)
    sg_data,                 \* component name -> specific gravity (l.86, 95)
    binder_mass,             \* l.99
    water_binder_ratio,      \* l.100
    volume,                  \* l.110
    Cl_content,              \* l.122
    temperature,             \* l.123
    zone,                    \* l.125
    zone_flags,              \* <<zone_tidal, zone_splash, zone_submerged>> l.127
    idx,                     \* position of the for loop in graph_exposure_times
    predicted_scs_for_table, \* l.134
    predicted_scs_for_graph, \* l.138
    calls,                   \* the frames handed to model.predict, in call order
    failed,                  \* number of the predictor call that raised, 0 if none
    out,                     \* the page elements emitted by this pass, in order
    table_html,              \* the rows written into the table (l.217-218)
    fig,                     \* the trace handed to the chart (l.229-236)
    prev                     \* record of the previous pass (history variable)

vars == <<pc, model, summation, rowOrder, input_data, sg_data, binder_mass,
          water_binder_ratio, volume, Cl_content, temperature, zone,
          zone_flags, idx, predicted_scs_for_table, predicted_scs_for_graph,
          calls, failed, out, table_html, fig, prev>>

-----------------------------------------------------------------------------
(* Exact fractions *)

RECURSIVE GCD(_, _)
GCD(a, b) == IF b = 0 THEN a ELSE GCD(b, a % b)

\* n/d in lowest terms, d > 0
Frac(n, d) == LET g == GCD(n, d) IN <<n \div g, d \div g>>

FracLeq(p, q) == p[1] * q[2] <= q[1] * p[2]

FracLess(p, q) == p[1] * q[2] < q[1] * p[2]

Zero == <<0, 1>>

\* A name the script has not bound yet in this pass
Unbound == <<>>

-----------------------------------------------------------------------------
(* Natural numbers of any size: sequences of limbs, least significant first, *)
(* without leading zero limbs.  The operators look at all limbs at once      *)
(* rather than recurse from limb to limb.                                    *)

LimbBits == 15

LimbBase == 32768

PowersOfTwo ==
    <<1, 2, 4, 8, 16, 32, 64, 128, 256, 512, 1024, 2048, 4096, 8192, 16384,
      32768, 65536, 131072, 262144, 524288, 1048576, 2097152, 4194304,
      8388608, 16777216, 33554432, 67108864, 134217728, 268435456, 536870912,
      1073741824>>

\* 2^n for n in 0..30
Pow2(n) == PowersOfTwo[n + 1]

Max(S) == CHOOSE m \in S : \A k \in S : k <= m

\* limb j of x, 0 beyond its ends
Limb(x, j) == IF j >= 1 /\ j <= Len(x) THEN x[j] ELSE 0

BigTrim(x) ==
    LET nz == {j \in 1..Len(x) : x[j] # 0}
    IN  IF nz = {} THEN <<>> ELSE SubSeq(x, 1, Max(nz))

\* n < 2^31 in limbs
BigFromInt(n) ==
    BigTrim(<<n % LimbBase, (n \div LimbBase) % LimbBase,
              n \div (LimbBase * LimbBase)>>)

\* x + y: limb j takes a carry when the nearest lower limb that does not just
\* pass a carry on makes one
BigAdd(x, y) ==
    LET n        == IF Len(x) > Len(y) THEN Len(x) ELSE Len(y)
        s(j)     == Limb(x, j) + Limb(y, j)
        carry(j) == LET src == {i \in 1..(j - 1) : s(i) # LimbBase - 1}
                    IN  IF src # {} /\ s(Max(src)) >= LimbBase THEN 1 ELSE 0
    IN  BigTrim([j \in 1..(n + 1) |-> (s(j) + carry(j)) % LimbBase])

\* x - y for x >= y, the borrows found as the carries of BigAdd
BigSub(x, y) ==
    LET d(j)      == Limb(x, j) - Limb(y, j)
        borrow(j) == LET src == {i \in 1..(j - 1) : d(i) # 0}
                     IN  IF src # {} /\ d(Max(src)) < 0 THEN 1 ELSE 0
    IN  BigTrim([j \in 1..Len(x) |->
                    (d(j) + LimbBase - borrow(j)) % LimbBase])

\* -1, 0, 1 as x < y, x = y, x > y
BigCmp(x, y) ==
    IF Len(x) # Len(y) THEN (IF Len(x) < Len(y) THEN -1 ELSE 1)
    ELSE LET diff == {j \in 1..Len(x) : x[j] # y[j]}
         IN  IF diff = {} THEN 0
             ELSE IF x[Max(diff)] < y[Max(diff)] THEN -1 ELSE 1

\* x * 2^n
BigShl(x, n) ==
    LET p == Pow2(n % LimbBits)
    IN  IF x = <<>> THEN <<>>
        ELSE [j \in 1..(n \div LimbBits) |-> 0]
             \o BigTrim([j \in 1..(Len(x) + 1) |->
                            ((Limb(x, j) * p) % LimbBase)
                            + ((Limb(x, j - 1) * p) \div LimbBase)])

\* x \div 2^n
BigShr(x, n) ==
    LET q == n \div LimbBits
        p == Pow2(n % LimbBits)
    IN  IF q >= Len(x) THEN <<>>
        ELSE BigTrim([j \in 1..(Len(x) - q) |->
                         (x[j + q] \div p)
                         + (Limb(x, j + q + 1) % p) * (LimbBase \div p)])

\* x * k for 0 <= k < LimbBase
BigMulSmall(x, k) ==
    BigAdd([j \in 1..Len(x) |-> (x[j] * k) % LimbBase],
           <<0>> \o [j \in 1..Len(x) |-> (x[j] * k) \div LimbBase])

\* x times the limbs lo..hi of y, in place
RECURSIVE BigMulRange(_, _, _, _)
BigMulRange(x, y, lo, hi) ==
    IF lo = hi THEN [j \in 1..(lo - 1) |-> 0] \o BigMulSmall(x, y[lo])
    ELSE BigAdd(BigMulRange(x, y, lo, (lo + hi) \div 2),
                BigMulRange(x, y, ((lo + hi) \div 2) + 1, hi))

BigMul(x, y) ==
    IF x = <<>> \/ y = <<>> THEN <<>> ELSE BigMulRange(x, y, 1, Len(y))

\* bits of a limb
BitLen(n) == Cardinality({k \in 0..(LimbBits - 1) : Pow2(k) <= n})

BigBitLen(x) ==
    IF x = <<>> THEN 0 ELSE LimbBits * (Len(x) - 1) + BitLen(x[Len(x)])

BigIsOdd(x) == x # <<>> /\ x[1] % 2 = 1

\* x \div 2^k rounded to the nearest natural number, ties to even
NearestEven(q, c) ==
    IF c = 1 \/ (c = 0 /\ BigIsOdd(q)) THEN BigAdd(q, <<1>>) ELSE q

\* -1, 0, 1 as what x \div 2^k = q leaves is less than, equal to or more than
\* one half
HalfCmp(x, k, q) ==
    BigCmp(BigShl(BigSub(x, BigShl(q, k)), 1), BigShl(<<1>>, k))

BigShrNearestEven(x, k) ==
    IF k = 0 THEN x
    ELSE NearestEven(BigShr(x, k), HalfCmp(x, k, BigShr(x, k)))

-----------------------------------------------------------------------------
(* IEEE 754 binary64 on non-negative numbers, round to nearest, ties to even *)

\* bits of the significand of a Python float
Precision == 53

FZero == <<0, <<>>>>

\* m * 2^e for a significand of Precision bits, or of one more whose last bit
\* is 0
Normal(m, e) ==
    IF BigBitLen(m) > Precision THEN <<e + 1, BigShr(m, 1)>> ELSE <<e, m>>

\* the float nearest to n * 2^e for n of len bits
FRoundBits(n, e, len) ==
    IF len <= Precision
    THEN <<e - (Precision - len), BigShl(n, Precision - len)>>
    ELSE Normal(BigShrNearestEven(n, len - Precision), e + len - Precision)

\* the float nearest to n * 2^e
FRound(n, e) ==
    IF n = <<>> THEN FZero
    ELSE FRoundBits(n, e, BigBitLen(n))

\* float(k) for a natural number k
FFromInt(k) == FRound(BigFromInt(k), 0)

\* x * y
FMul(x, y) ==
    IF x = FZero \/ y = FZero THEN FZero
    ELSE FRound(BigMul(x[2], y[2]), x[1] + y[1])

\* One step of the restoring division by b of a dividend r < 2 * b.  The
\* state is <<q, r>>, the quotient bits so far and what is left.
DivStep(s, b) ==
    IF BigCmp(s[2], b) >= 0
    THEN <<2 * s[1] + 1, BigShl(BigSub(s[2], b), 1)>>
    ELSE <<2 * s[1], BigShl(s[2], 1)>>

\* n <= LimbBits steps, split in halves; when nothing is left the other bits
\* are 0
RECURSIVE DivBits(_, _, _)
DivBits(s, b, n) ==
    IF s[2] = <<>> THEN <<s[1] * Pow2(n), <<>>>>
    ELSE IF n = 1 THEN DivStep(s, b)
    ELSE DivBits(DivBits(s, b, n \div 2), b, n - (n \div 2))

\* The next limb of the quotient.  The state is <<q, r>>, the quotient limbs
\* so far and what is left.
DivLimb(s, b) ==
    LET d == DivBits(<<0, s[2]>>, b, LimbBits) IN <<<<d[1]>> \o s[1], d[2]>>

\* the next k limbs, split in halves
RECURSIVE DivLimbs(_, _, _)
DivLimbs(s, b, k) ==
    IF s[2] = <<>> THEN <<[j \in 1..k |-> 0] \o s[1], <<>>>>
    ELSE IF k = 1 THEN DivLimb(s, b)
    ELSE DivLimbs(DivLimbs(s, b, k \div 2), b, k - (k \div 2))

\* limbs of quotient computed by a division: 60 bits, more than Precision + 2
QuotientLimbs == 4

\* what x / 0.0 raises in place of a value
ZeroDivisionError == "ZeroDivisionError"

\* x / y: the quotient of the significands to QuotientLimbs limbs and a last
\* bit that tells whether the division left a remainder
FDiv(x, y) ==
    IF y = FZero THEN ZeroDivisionError
    ELSE IF x = FZero THEN FZero
    ELSE LET qr == DivLimbs(<<<<>>, x[2]>>, y[2], QuotientLimbs)
             e  == x[1] - y[1] - QuotientLimbs * LimbBits
         IN  IF qr[2] = <<>>
             THEN FRound(BigShl(BigTrim(qr[1]), 1), e)
             ELSE FRound(BigAdd(BigShl(BigTrim(qr[1]), 1), <<1>>), e)

\* x + y
FAdd(x, y) ==
    IF y = ZeroDivisionError THEN y
    ELSE IF x = FZero THEN y
    ELSE IF y = FZero THEN x
    ELSE LET e == IF x[1] < y[1] THEN x[1] ELSE y[1]
         IN  FRound(BigAdd(BigShl(x[2], x[1] - e), BigShl(y[2], y[1] - e)), e)

\* x <= y
FLeq(x, y) ==
    IF x = FZero THEN TRUE
    ELSE IF y = FZero THEN FALSE
    ELSE IF x[1] # y[1] THEN x[1] < y[1]
    ELSE BigCmp(x[2], y[2]) <= 0

\* A float with a sign: <<1, x>> is x and <<-1, x>> is -x
Plus(x) == <<1, x>>

Minus(x) == <<-1, x>>

\* the significand of x for the exponent e <= x[1]
Aligned(x, e) == BigShl(x[2], x[1] - e)

\* a + b for floats a, b of opposite signs, neither 0, where e is the smaller
\* exponent and cmp compares the magnitudes
SignedSub(a, b, e, cmp) ==
    IF cmp = 0 THEN Plus(FZero)
    ELSE IF cmp > 0
         THEN <<a[1], FRound(BigSub(Aligned(a[2], e), Aligned(b[2], e)), e)>>
         ELSE <<b[1], FRound(BigSub(Aligned(b[2], e), Aligned(a[2], e)), e)>>

SignedSubAt(a, b, e) ==
    SignedSub(a, b, e, BigCmp(Aligned(a[2], e), Aligned(b[2], e)))

\* a + b for floats with a sign
SignedAdd(a, b) ==
    IF a[2] = FZero THEN b
    ELSE IF b[2] = FZero THEN a
    ELSE IF a[1] = b[1] THEN <<a[1], FAdd(a[2], b[2])>>
    ELSE SignedSubAt(a, b, IF a[2][1] < b[2][1] THEN a[2][1] ELSE b[2][1])

\* the float of the decimal numeral n/d (a literal, or a value typed into a
\* number input)
FLiteral(n, d) == FDiv(FFromInt(n), FFromInt(d))

-----------------------------------------------------------------------------
(* Step 1: the components and the values the widgets can return *)

\* l.72-81, in the order of the list
components == <<"Cement", "Fine aggregate", "Coarse aggregate", "Water",
                "Superplasticizer", "Fly ash", "Silica fume",
                "Blast furnace slag">>

ComponentNames == {components[k] : k \in 1..Len(components)}

\* Values of st.number_input(..., min_value=0.0) explored for each component
MassChoices ==
    [n \in ComponentNames |->
        CASE n = "Cement"           -> {0, 300}
          [] n = "Fine aggregate"   -> {746, 1011, 1064}
          [] n = "Coarse aggregate" -> {915}
          [] n = "Water"            -> {90, 210, 300}
          [] n = "Fly ash"          -> {0, 100}
          [] OTHER                  -> {0}]

\* Values of st.number_input(..., min_value=0.01) explored for each component;
\* the defaults are 2.65, and 1.0 for Water (l.95)
GravityChoices ==
    [n \in ComponentNames |->
        CASE n = "Water"          -> {100}
          [] n = "Fine aggregate" -> {265, 200}
          [] OTHER                -> {265}]

UnboundMap == [n \in ComponentNames |-> 0]

-----------------------------------------------------------------------------
(* Step 2: validation *)

\* l.99
BinderMass(inp) ==
    inp["Cement"] + inp["Fly ash"] + inp["Silica fume"] + inp["Blast furnace slag"]

\* Variant of WaterBinderRatio: the division guarded by a divisor of 1 instead
\* of a result of 0
WaterBinderRatioDivByOne(inp, bm) ==
    IF bm # 0 THEN Frac(inp["Water"], bm) ELSE Frac(inp["Water"], 1)

\* Variant of WaterBinderRatio: the quotient taken the other way round
WaterBinderRatioInverted(inp, bm) ==
    IF bm # 0 THEN Frac(bm, inp["Water"]) ELSE Zero

\* l.100: input_data["Water"] / binder_mass if binder_mass else 0
WaterBinderRatio(inp, bm) ==
    IF bm # 0 THEN Frac(inp["Water"], bm) ELSE Zero

\* l.104: 0.3 <= water_binder_ratio <= 0.7
RatioInRange(r) == FracLeq(<<3, 10>>, r) /\ FracLeq(r, <<7, 10>>)

\* sg_data[k] * 1000 of l.110, for a specific gravity typed in as sg hundredths
Thousandfold(sg) == FMul(FLiteral(sg, 100), FFromInt(1000))

\* The products for the specific gravities explored, computed once
ThousandfoldOfChoices ==
    [sg \in UNION {GravityChoices[n] : n \in ComponentNames} |-> Thousandfold(sg)]

\* One term of l.110: input_data[k] / (sg_data[k] * 1000), for a mass of m kg
VolumeTerm(m, sg) ==
    FDiv(FFromInt(m), IF sg \in DOMAIN ThousandfoldOfChoices
                      THEN ThousandfoldOfChoices[sg]
                      ELSE Thousandfold(sg))

\* l.110: sum(input_data[k] / (sg_data[k] * 1000) for k in input_data): the
\* terms from the k-th on added one by one to the sum so far, in the order of
\* the keys; a term that raises ends the sum
RECURSIVE VolumeFrom(_, _, _, _)
VolumeFrom(acc, inp, sg, k) ==
    IF acc = ZeroDivisionError \/ k > Len(components) THEN acc
    ELSE VolumeFrom(FAdd(acc, VolumeTerm(inp[components[k]], sg[components[k]])),
                    inp, sg, k + 1)

\* f_result and x, the one of the larger magnitude first
Ordered(f, x) == IF FLeq(x, f) THEN <<f, x>> ELSE <<x, f>>

\* (f_result - t) + x when fabs(f_result) >= fabs(x), else (x - t) + f_result,
\* for p = Ordered(f_result, x)
Lost(p, t) == SignedAdd(SignedAdd(Plus(p[1]), Minus(t)), Plus(p[2]))

\* c += the bits lost; f_result = t
Compensate(fc, x, t) == <<t, SignedAdd(fc[2], Lost(Ordered(fc[1], x), t))>>

\* One step of sum() on floats in CPython 3.12 and later: fc is <<f_result,
\* c>>, the sum so far and the compensation, x the next term (none is
\* negative here).  t = f_result + x; c += (f_result - t) + x when
\* fabs(f_result) >= fabs(x), else c += (x - t) + f_result; f_result = t.
CompensatedStep(fc, x) ==
    IF x = ZeroDivisionError THEN <<x, fc[2]>>
    ELSE Compensate(fc, x, FAdd(fc[1], x))

\* The rest of the sum from the k-th term on; at the end c is added to
\* f_result when it is not zero (the sum of the terms is not negative)
RECURSIVE VolumeCompensatedFrom(_, _, _, _)
VolumeCompensatedFrom(fc, inp, sg, k) ==
    IF fc[1] = ZeroDivisionError THEN fc[1]
    ELSE IF k > Len(components)
         THEN IF fc[2][2] = FZero THEN fc[1]
              ELSE SignedAdd(Plus(fc[1]), fc[2])[2]
    ELSE VolumeCompensatedFrom(
             CompensatedStep(fc, VolumeTerm(inp[components[k]],
                                            sg[components[k]])),
             inp, sg, k + 1)

\* The two ways sum() adds floats: one by one, left to right (CPython up to
\* 3.11), and with the compensation (CPython 3.12 and later)
Summations == {"left_to_right", "compensated"}

\* l.110.  sum() starts from the integer 0 and adds the first term to it as
\* it is; from there on the sum is a float and, in the interpreters that
\* compensate, the compensation starts at 0.0.
Volume(s, inp, sg) ==
    IF s = "compensated"
    THEN VolumeCompensatedFrom(
             <<FAdd(FZero, VolumeTerm(inp[components[1]], sg[components[1]])),
               Plus(FZero)>>,
             inp, sg, 2)
    ELSE VolumeFrom(FZero, inp, sg, 1)

\* l.113: the literals 0.95 and 1.05
VolumeMin == FLiteral(95, 100)

VolumeMax == FLiteral(105, 100)

\* l.113: 0.95 <= volume <= 1.05
VolumeInRange(v) == FLeq(VolumeMin, v) /\ FLeq(v, VolumeMax)

-----------------------------------------------------------------------------
(* Step 3: environmental parameters *)

\* l.125: the options of the select box
Zones == {"Tidal zone", "Splash zone", "Submerged zone"}

\* Variant of zone_ohe: the Splash zone entry copied from the Tidal zone entry
zone_ohe_copied(z) ==
    CASE z = "Tidal zone"     -> <<1, 0, 0>>
      [] z = "Splash zone"    -> <<1, 0, 0>>
      [] z = "Submerged zone" -> <<0, 0, 1>>

\* l.126
zone_ohe(z) ==
    CASE z = "Tidal zone"     -> <<1, 0, 0>>
      [] z = "Splash zone"    -> <<0, 1, 0>>
      [] z = "Submerged zone" -> <<0, 0, 1>>

\* Values of the two number inputs explored (l.122: 13.0..27.0, l.123: 7.0..35.0)
ClChoices == {13, 27}

TemperatureChoices == {35}

-----------------------------------------------------------------------------
(* Step 4: feature assembly and prediction *)

\* l.133
table_exposure_times == <<5, 10, 30, 50>>

\* l.137
graph_exposure_times == <<5, 10, 30, 50, 100, 150, 200, 250, 300>>

\* l.141-146
expected_feature_order ==
    <<"Cement", "Fine aggregate", "Coarse aggregate", "Water",
      "Water-binder ratio", "Superplasticizer", "Fly ash", "Silica fume",
      "Blast furnace slag", "Cl content in seawater", "Annual temperature",
      "Exposure time", "Tidal zone", "Splash zone", "Submerged zone">>

\* l.150-166: the items of the dict literal, in the order they are written.
\* A mapping is a sequence of <<key, value>> items in insertion order.
RowLiteral(inp, wbr, cl, temp, t, zf) ==
    << <<"Cement", inp["Cement"]>>,
       <<"Fine aggregate", inp["Fine aggregate"]>>,
       <<"Coarse aggregate", inp["Coarse aggregate"]>>,
       <<"Water", inp["Water"]>>,
       <<"Water-binder ratio", wbr>>,
       <<"Superplasticizer", inp["Superplasticizer"]>>,
       <<"Fly ash", inp["Fly ash"]>>,
       <<"Silica fume", inp["Silica fume"]>>,
       <<"Blast furnace slag", inp["Blast furnace slag"]>>,
       <<"Cl content in seawater", cl>>,
       <<"Annual temperature", temp>>,
       <<"Exposure time", t>>,
       <<"Tidal zone", zf[1]>>,
       <<"Splash zone", zf[2]>>,
       <<"Submerged zone", zf[3]>> >>

\* The same items inserted in the order ord (a permutation of 1..15)
BuildRow(items, ord) == [j \in 1..Len(items) |-> items[ord[j]]]

\* row[k]
Lookup(row, key) ==
    LET j == CHOOSE j \in 1..Len(row) : row[j][1] = key IN row[j][2]

\* Variant of Reorder: the mapping handed on in its insertion order
ReorderOmitted(row) == row

\* l.167: row = {k: row[k] for k in expected_feature_order}
Reorder(row) ==
    [j \in 1..Len(expected_feature_order) |->
        <<expected_feature_order[j], Lookup(row, expected_feature_order[j])>>]

\* The column names of a frame, in column order
Columns(df) == [j \in 1..Len(df) |-> df[j][1]]

\* The outcome of a predictor call that raises
Fail == -1

\* Exposure times at which a candidate predictor raises; 0 is a predictor
\* that never raises
FailChoices == {0, 5, 30, 150}

\* The type of the number a predictor returns: numpy.float32, the type of
\* XGBRegressor.predict, or a Python float
Dtypes == {"float32", "float64"}

\* The candidate predictors GUI_Model.json can hold (l.13-14)
Models == [failAt : FailChoices, dtype : Dtypes]

\* l.170: model.predict(df)[0].  The predictor is an opaque, deterministic
\* function of the frame.  It reads the columns by position, rejects a frame
\* whose columns are not the feature names it was trained with, and raises for
\* the frames the loaded model cannot score.  A result k stands for the number
\* of type m.dtype nearest to k / 10000.
predict(m, df) ==
    IF Columns(df) # expected_feature_order \/ df[12][2] = m.failAt THEN Fail
    ELSE df[1][2] + df[2][2] + df[4][2]
         + (1000 * df[5][2][1]) \div df[5][2][2]
         + 2 * df[7][2] + 5 * df[10][2] + df[11][2] + 3 * df[12][2]
         + 111 * df[13][2] + 223 * df[14][2] + 337 * df[15][2]

\* q + r / d to the nearest integer, ties to even, for 0 <= r < d
Nearest(q, r, d) ==
    IF 2 * r > d \/ (2 * r = d /\ q % 2 = 1) THEN q + 1 ELSE q

\* The j with 10000 <= k * 2^j < 20000, for 0 < k < 80000: the float nearest
\* to k / 10000 is M * 2^-(p - 1 + j) with a significand M of p bits
Exponent(k) ==
    CHOOSE j \in -2..14 :
        IF j >= 0 THEN 10000 <= k * Pow2(j) /\ k * Pow2(j) < 20000
        ELSE 10000 * Pow2(-j) <= k /\ k < 20000 * Pow2(-j)

\* 2^s modulo 10000, by squaring
RECURSIVE Pow2Mod(_)
Pow2Mod(s) ==
    IF s = 0 THEN 1
    ELSE (Pow2Mod(s \div 2) * Pow2Mod(s \div 2) * (IF s % 2 = 1 THEN 2 ELSE 1))
         % 10000

\* round(sc, 3) of a Python float: the thousandth nearest to the value of the
\* double, ties to even.  The double of k / 10000 is M * 2^-s for the integer M
\* nearest to k * 2^s / 10000.  When k ends in 5 the double is half way only
\* if it is k / 10000 itself, which is when 625 divides k; otherwise it lies
\* above k / 10000 when M was rounded up, which is when the remainder of
\* k * 2^s by 10000 is more than half of 10000.
Round3Float64(k) ==
    IF k % 10 < 5 THEN 10 * (k \div 10)
    ELSE IF k % 10 > 5 THEN 10 * ((k \div 10) + 1)
    ELSE IF k % 625 = 0 THEN 10 * Nearest(k \div 10, 5, 10)
    ELSE IF ((k % 10000) * Pow2Mod(52 + Exponent(k))) % 10000 > 5000
         THEN 10 * ((k \div 10) + 1)
         ELSE 10 * (k \div 10)

\* One step of the restoring division of integers by d.  The state is
\* <<q, r>>, the quotient bits so far and the remainder.
Div32Step(s, d) ==
    IF 2 * s[2] >= d THEN <<2 * s[1] + 1, 2 * s[2] - d>>
    ELSE <<2 * s[1], 2 * s[2]>>

\* n steps, split in halves; when the remainder is 0 the other bits are 0
RECURSIVE Div32Bits(_, _, _)
Div32Bits(s, d, n) ==
    IF s[2] = 0 THEN <<s[1] * Pow2(n), 0>>
    ELSE IF n = 1 THEN Div32Step(s, d)
    ELSE Div32Bits(Div32Bits(s, d, n \div 2), d, n - (n \div 2))

\* The numpy.float32 nearest to k / 10000, for 0 < k < 80000: <<M, s>> for
\* M * 2^-s with 2^23 <= M < 2^24
Float32Of(k) ==
    LET j  == Exponent(k)
        d  == IF j < 0 THEN 10000 * Pow2(-j) ELSE 10000
        a  == IF j > 0 THEN k * Pow2(j) ELSE k
        qr == Div32Bits(<<1, a - d>>, d, 23)
        M  == Nearest(qr[1], qr[2], d)
    IN  IF M = Pow2(24) THEN <<Pow2(23), 22 + j>> ELSE <<M, 23 + j>>

\* x * 1000 in float32: the product has 33 bits when x[1] * 1000 < 2^33 and
\* 34 otherwise, of which 24 are kept
Times1000(x) ==
    LET drop == IF x[1] <= 8589934 THEN 9 ELSE 10
        lo   == (x[1] % 4096) * 1000
        Y    == Nearest((x[1] \div 4096) * 1000 * Pow2(12 - drop)
                            + (lo \div Pow2(drop)),
                        lo % Pow2(drop), Pow2(drop))
    IN  IF Y = Pow2(24) THEN <<Pow2(23), x[2] - drop - 1>>
        ELSE <<Y, x[2] - drop>>

\* rint(y) for a float32 y = y[1] * 2^-y[2] below 2^13
Rint(y) ==
    IF y[2] > 24 THEN 0
    ELSE Nearest(y[1] \div Pow2(y[2]), y[1] % Pow2(y[2]), Pow2(y[2]))

\* round(sc, 3) of a numpy.float32: sc * 1000, rint, / 1000, each in float32;
\* the quotient is the float32 nearest to the thousandth
Round3Float32(k) ==
    IF k = 0 THEN 0 ELSE 10 * Rint(Times1000(Float32Of(k)))

\* l.172-173: round(sc, 3)
Round3(dtype, sc) ==
    IF dtype = "float32" THEN Round3Float32(sc) ELSE Round3Float64(sc)

\* t in table_exposure_times (l.171)
InTable(t) == \E j \in 1..Len(table_exposure_times) : table_exposure_times[j] = t

\* l.217: zip(table_exposure_times, predicted_scs_for_table)
Zip(a, b) ==
    LET n == IF Len(a) < Len(b) THEN Len(a) ELSE Len(b)
    IN  [j \in 1..n |-> <<a[j], b[j]>>]

\* The insertion order of the dict literal of l.150-166
LiteralOrder == [j \in 1..Len(expected_feature_order) |-> j]

-----------------------------------------------------------------------------
(* The record kept of a finished pass *)

NoFig == [x |-> <<>>, y |-> <<>>]

NoPass ==
    [stage |-> "none", input_data |-> UnboundMap, sg_data |-> UnboundMap,
     water_binder_ratio |-> Unbound, env |-> Unbound, failed |-> 0,
     out |-> <<>>, table_html |-> <<>>, fig |-> NoFig]

ThisPass ==
    [stage |-> pc, input_data |-> input_data, sg_data |-> sg_data,
     water_binder_ratio |-> water_binder_ratio,
     env |-> IF zone_flags = Unbound THEN Unbound
             ELSE <<Cl_content, temperature, zone>>,
     failed |-> failed, out |-> out, table_html |-> table_html, fig |-> fig]

-----------------------------------------------------------------------------
(* The script *)

Init ==
    /\ pc = "step1"
    /\ model \in Models
    /\ summation \in Summations
    /\ rowOrder = LiteralOrder
    /\ input_data = UnboundMap
    /\ sg_data = UnboundMap
    /\ binder_mass = -1
    /\ water_binder_ratio = Unbound
    /\ volume = Unbound
    /\ Cl_content = -1
    /\ temperature = -1
    /\ zone = ""
    /\ zone_flags = Unbound
    /\ idx = 0
    /\ predicted_scs_for_table = Unbound
    /\ predicted_scs_for_graph = Unbound
    /\ calls = <<>>
    /\ failed = 0
    /\ out = <<>>
    /\ table_html = <<>>
    /\ fig = NoFig
    /\ prev = NoPass

\* The mapping built by the loops of l.90-91 and l.94-95 from one value per
\* component, in the order of the components list
MapOf(vals) ==
    [n \in ComponentNames |->
        vals[CHOOSE k \in 1..Len(components) : components[k] = n]]

\* The mixes and the specific gravities the number inputs are drawn from
Mixes ==
    {MapOf(<<ce, fi, co, wa, sp, fl, si, sl>>) :
        ce \in MassChoices["Cement"], fi \in MassChoices["Fine aggregate"],
        co \in MassChoices["Coarse aggregate"], wa \in MassChoices["Water"],
        sp \in MassChoices["Superplasticizer"], fl \in MassChoices["Fly ash"],
        si \in MassChoices["Silica fume"],
        sl \in MassChoices["Blast furnace slag"]}

Gravities ==
    {MapOf(<<ce, fi, co, wa, sp, fl, si, sl>>) :
        ce \in GravityChoices["Cement"],
        fi \in GravityChoices["Fine aggregate"],
        co \in GravityChoices["Coarse aggregate"],
        wa \in GravityChoices["Water"],
        sp \in GravityChoices["Superplasticizer"],
        fl \in GravityChoices["Fly ash"], si \in GravityChoices["Silica fume"],
        sl \in GravityChoices["Blast furnace slag"]}

\* The batch volume of the inputs explored, computed once: the pairs of the
\* inputs and their volume
VolumeOfChoices ==
    {<<p, Volume(p[1], p[2], p[3])>> : p \in Summations \X Mixes \X Gravities}

\* l.110 for the inputs at hand
VolumeOfInputs(s, inp, sg) ==
    IF \E t \in VolumeOfChoices : t[1] = <<s, inp, sg>>
    THEN (CHOOSE t \in VolumeOfChoices : t[1] = <<s, inp, sg>>)[2]
    ELSE Volume(s, inp, sg)

\* l.85-95: the two columns of number inputs
ReadMix ==
    /\ pc = "step1"
    /\ input_data' \in Mixes
    /\ sg_data' \in Gravities
    /\ pc' = "step2"
    /\ UNCHANGED <<model, summation, rowOrder, binder_mass, water_binder_ratio, volume,
                   Cl_content, temperature, zone, zone_flags, idx,
                   predicted_scs_for_table, predicted_scs_for_graph, calls,
                   failed, out, table_html, fig, prev>>

\* l.98-100
ComputeRatio ==
    /\ pc = "step2"
    /\ binder_mass' = BinderMass(input_data)
    /\ water_binder_ratio' = WaterBinderRatio(input_data, BinderMass(input_data))
    /\ pc' = "ratio_check"
    /\ UNCHANGED <<model, summation, rowOrder, input_data, sg_data, volume, Cl_content,
                   temperature, zone, zone_flags, idx, predicted_scs_for_table,
                   predicted_scs_for_graph, calls, failed, out, table_html,
                   fig, prev>>

\* Variant of RatioCheck: the error is shown but the script is not stopped
RatioCheckNoStop ==
    /\ pc = "ratio_check"
    /\ IF ~RatioInRange(water_binder_ratio)
       THEN out' = out \o <<"ratio_write", "ratio_error">>
       ELSE out' = out \o <<"ratio_write", "ratio_success">>
    /\ pc' = "volume"
    /\ UNCHANGED <<model, summation, rowOrder, input_data, sg_data, binder_mass,
                   water_binder_ratio, volume, Cl_content, temperature, zone,
                   zone_flags, idx, predicted_scs_for_table,
                   predicted_scs_for_graph, calls, failed, table_html, fig,
                   prev>>

\* l.102-108
RatioCheck ==
    /\ pc = "ratio_check"
    /\ IF ~RatioInRange(water_binder_ratio)
       THEN /\ out' = out \o <<"ratio_write", "ratio_error">>
            /\ pc' = "stopped"
       ELSE /\ out' = out \o <<"ratio_write", "ratio_success">>
            /\ pc' = "volume"
    /\ UNCHANGED <<model, summation, rowOrder, input_data, sg_data, binder_mass,
                   water_binder_ratio, volume, Cl_content, temperature, zone,
                   zone_flags, idx, predicted_scs_for_table,
                   predicted_scs_for_graph, calls, failed, table_html, fig,
                   prev>>

\* l.110
ComputeVolume ==
    /\ pc = "volume"
    /\ volume' = VolumeOfInputs(summation, input_data, sg_data)
    /\ pc' = "volume_check"
    /\ UNCHANGED <<model, summation, rowOrder, input_data, sg_data, binder_mass,
                   water_binder_ratio, Cl_content, temperature, zone,
                   zone_flags, idx, predicted_scs_for_table,
                   predicted_scs_for_graph, calls, failed, out, table_html,
                   fig, prev>>

\* l.111-117
VolumeCheck ==
    /\ pc = "volume_check"
    /\ IF ~VolumeInRange(volume)
       THEN /\ out' = out \o <<"volume_write", "volume_error">>
            /\ pc' = "stopped"
       ELSE /\ out' = out \o <<"volume_write", "volume_success">>
            /\ pc' = "step3"
    /\ UNCHANGED <<model, summation, rowOrder, input_data, sg_data, binder_mass,
                   water_binder_ratio, volume, Cl_content, temperature, zone,
                   zone_flags, idx, predicted_scs_for_table,
                   predicted_scs_for_graph, calls, failed, table_html, fig,
                   prev>>

\* l.120-127
ReadEnvironment ==
    /\ pc = "step3"
    /\ Cl_content' \in ClChoices
    /\ temperature' \in TemperatureChoices
    /\ \E z \in Zones :
          /\ zone' = z
          /\ zone_flags' = zone_ohe(z)
    /\ pc' = "step4"
    /\ UNCHANGED <<model, summation, rowOrder, input_data, sg_data, binder_mass,
                   water_binder_ratio, volume, idx, predicted_scs_for_table,
                   predicted_scs_for_graph, calls, failed, out, table_html,
                   fig, prev>>

\* Variant of InitSweep: the result lists are taken up from the results the
\* session showed last
InitSweepFromSession ==
    /\ pc = "step4"
    /\ predicted_scs_for_table' =
           [j \in 1..Len(prev.table_html) |-> prev.table_html[j][2]]
    /\ predicted_scs_for_graph' = prev.fig.y
    /\ idx' = 1
    /\ pc' = "sweep"
    /\ UNCHANGED <<model, summation, rowOrder, input_data, sg_data, binder_mass,
                   water_binder_ratio, volume, Cl_content, temperature, zone,
                   zone_flags, calls, failed, out, table_html, fig, prev>>

\* l.130-146: the two result lists are bound to new empty lists
InitSweep ==
    /\ pc = "step4"
    /\ predicted_scs_for_table' = <<>>
    /\ predicted_scs_for_graph' = <<>>
    /\ idx' = 1
    /\ pc' = "sweep"
    /\ UNCHANGED <<model, summation, rowOrder, input_data, sg_data, binder_mass,
                   water_binder_ratio, volume, Cl_content, temperature, zone,
                   zone_flags, calls, failed, out, table_html, fig, prev>>

\* The part of an iteration that the variants below share with SweepIteration
IterationWith(onFail(_)) ==
    /\ pc = "sweep"
    /\ LET t   == graph_exposure_times[idx]
           row == BuildRow(RowLiteral(input_data, water_binder_ratio,
                                      Cl_content, temperature, t, zone_flags),
                           rowOrder)
           df  == Reorder(row)
           sc  == predict(model, df)
       IN  /\ calls' = Append(calls, df)
           /\ IF sc = Fail
              THEN /\ out' = Append(out, "prediction_error")
                   /\ failed' = IF failed = 0 THEN idx ELSE failed
                   /\ onFail(idx)
                   /\ UNCHANGED <<predicted_scs_for_table,
                                  predicted_scs_for_graph>>
              ELSE /\ predicted_scs_for_table' =
                          IF InTable(t)
                          THEN Append(predicted_scs_for_table,
                                      Round3(model.dtype, sc))
                          ELSE predicted_scs_for_table
                   /\ predicted_scs_for_graph' =
                          Append(predicted_scs_for_graph, Round3(model.dtype, sc))
                   /\ idx' = idx + 1
                   /\ pc' = IF idx = Len(graph_exposure_times)
                            THEN "table" ELSE "sweep"
                   /\ UNCHANGED <<failed, out>>
    /\ UNCHANGED <<model, summation, rowOrder, input_data, sg_data, binder_mass,
                   water_binder_ratio, volume, Cl_content, temperature, zone,
                   zone_flags, table_html, fig, prev>>

\* Variant of SweepIteration: `continue` in the except clause instead of `break`
SweepIterationContinue ==
    LET next(k) == /\ idx' = k + 1
                   /\ pc' = IF k = Len(graph_exposure_times)
                            THEN "table" ELSE "sweep"
    IN  IterationWith(next)

\* Variant of SweepIteration: a failed call is repeated once before the loop
\* is left
SweepIterationRetry ==
    LET again(k) == /\ idx' = k
                    /\ pc' = IF failed = 0 THEN "sweep" ELSE "table"
    IN  IterationWith(again)

\* l.149-176: one iteration of the for loop, for t = graph_exposure_times[idx]
SweepIteration ==
    /\ pc = "sweep"
    /\ LET t   == graph_exposure_times[idx]
           row == BuildRow(RowLiteral(input_data, water_binder_ratio,
                                      Cl_content, temperature, t, zone_flags),
                           rowOrder)
           df  == Reorder(row)
           sc  == predict(model, df)
       IN  /\ calls' = Append(calls, df)
           /\ IF sc = Fail
              THEN /\ out' = Append(out, "prediction_error")
                   /\ failed' = idx
                   /\ pc' = "table"
                   /\ UNCHANGED <<idx, predicted_scs_for_table,
                                  predicted_scs_for_graph>>
              ELSE /\ predicted_scs_for_table' =
                          IF InTable(t)
                          THEN Append(predicted_scs_for_table,
                                      Round3(model.dtype, sc))
                          ELSE predicted_scs_for_table
                   /\ predicted_scs_for_graph' =
                          Append(predicted_scs_for_graph, Round3(model.dtype, sc))
                   /\ idx' = idx + 1
                   /\ pc' = IF idx = Len(graph_exposure_times)
                            THEN "table" ELSE "sweep"
                   /\ UNCHANGED <<failed, out>>
    /\ UNCHANGED <<model, summation, rowOrder, input_data, sg_data, binder_mass,
                   water_binder_ratio, volume, Cl_content, temperature, zone,
                   zone_flags, table_html, fig, prev>>

\* l.178-223
RenderTable ==
    /\ pc = "table"
    /\ table_html' = Zip(table_exposure_times, predicted_scs_for_table)
    /\ out' = Append(out, "table")
    /\ pc' = "chart"
    /\ UNCHANGED <<model, summation, rowOrder, input_data, sg_data, binder_mass,
                   water_binder_ratio, volume, Cl_content, temperature, zone,
                   zone_flags, idx, predicted_scs_for_table,
                   predicted_scs_for_graph, calls, failed, fig, prev>>

\* l.225-247
RenderChart ==
    /\ pc = "chart"
    /\ fig' = [x |-> graph_exposure_times, y |-> predicted_scs_for_graph]
    /\ out' = Append(out, "chart")
    /\ pc' = "done"
    /\ UNCHANGED <<model, summation, rowOrder, input_data, sg_data, binder_mass,
                   water_binder_ratio, volume, Cl_content, temperature, zone,
                   zone_flags, idx, predicted_scs_for_table,
                   predicted_scs_for_graph, calls, failed, table_html, prev>>

\* The positions of the script that are followed by a call of Streamlit
\* before anything else is computed (in the sweep only the report of a failed
\* call is one, l.175, and the pass is then at "table")
AtStreamlitCall ==
    {"step1", "step2", "ratio_check", "volume_check", "step3", "step4",
     "table", "chart"}

\* A user interaction: Streamlit executes the script again from the top, in a
\* new namespace and on a cleared page.  A pass that has ended (st.stop() or
\* the last line) is kept as the previous pass; a pass that is still running
\* is given up at its next call of Streamlit, and nothing of it is kept.
Rerun ==
    /\ pc \in {"stopped", "done"} \cup AtStreamlitCall
    /\ prev' = IF pc \in {"stopped", "done"} THEN ThisPass ELSE prev
    /\ pc' = "step1"
    /\ input_data' = UnboundMap
    /\ sg_data' = UnboundMap
    /\ binder_mass' = -1
    /\ water_binder_ratio' = Unbound
    /\ volume' = Unbound
    /\ Cl_content' = -1
    /\ temperature' = -1
    /\ zone' = ""
    /\ zone_flags' = Unbound
    /\ idx' = 0
    /\ predicted_scs_for_table' = Unbound
    /\ predicted_scs_for_graph' = Unbound
    /\ calls' = <<>>
    /\ failed' = 0
    /\ out' = <<>>
    /\ table_html' = <<>>
    /\ fig' = NoFig
    /\ UNCHANGED <<model, summation, rowOrder>>

Pass ==
    \/ ReadMix
    \/ ComputeRatio
    \/ RatioCheck
    \/ ComputeVolume
    \/ VolumeCheck
    \/ ReadEnvironment
    \/ InitSweep
    \/ SweepIteration
    \/ RenderTable
    \/ RenderChart

Next == Pass \/ Rerun

Spec == Init /\ [][Next]_vars

-----------------------------------------------------------------------------
(* The feature assembler under other insertion orders of the row mapping *)

Reversed == [j \in 1..Len(expected_feature_order) |->
                Len(expected_feature_order) + 1 - j]

Rotated == [j \in 1..Len(expected_feature_order) |->
                (j % Len(expected_feature_order)) + 1]

ZonesFirst == [j \in 1..Len(expected_feature_order) |->
                ((j + 11) % Len(expected_feature_order)) + 1]

RowOrders == {LiteralOrder, Reversed, Rotated, ZonesFirst}

InitAssemble ==
    /\ pc = "step1"
    /\ model \in Models
    /\ summation \in Summations
    /\ rowOrder \in RowOrders
    /\ input_data = UnboundMap
    /\ sg_data = UnboundMap
    /\ binder_mass = -1
    /\ water_binder_ratio = Unbound
    /\ volume = Unbound
    /\ Cl_content = -1
    /\ temperature = -1
    /\ zone = ""
    /\ zone_flags = Unbound
    /\ idx = 0
    /\ predicted_scs_for_table = Unbound
    /\ predicted_scs_for_graph = Unbound
    /\ calls = <<>>
    /\ failed = 0
    /\ out = <<>>
    /\ table_html = <<>>
    /\ fig = NoFig
    /\ prev = NoPass

SpecAssemble == InitAssemble /\ [][Pass]_vars

-----------------------------------------------------------------------------
(* Properties *)

Emitted(tag) == \E j \in 1..Len(out) : out[j] = tag

BeforeGates == {"step1", "step2", "ratio_check", "volume", "volume_check"}

AfterGates == {"step3", "step4", "sweep", "table", "chart", "done"}

InSweepOrLater == {"sweep", "table", "chart", "done"}

AfterSweep == {"table", "chart", "done"}

\* The two acceptance ranges of the validation policy, evaluated on the inputs
RatioAccepted ==
    LET r == WaterBinderRatio(input_data, BinderMass(input_data))
    IN  FracLeq(<<30, 100>>, r) /\ FracLeq(r, <<70, 100>>)

\* The inputs whose batch volume, the sum of the quotients in double
\* precision as the interpreter adds them, lies in [0.95, 1.05]
InRangeVolumes ==
    {t[1] : t \in {u \in VolumeOfChoices : VolumeInRange(u[2])}}

VolumeAccepted == <<summation, input_data, sg_data>> \in InRangeVolumes

\* p + q for fractions
FracPlus(p, q) == Frac(p[1] * q[2] + q[1] * p[2], p[2] * q[2])

\* batch_volume as the spec defines it: the sum over the components of
\* quantity / (specific_gravity * 1000), a number that does not depend on the
\* order of the components.  A gravity of sg hundredths gives the divisor
\* 10 * sg.
RECURSIVE BatchVolumeFrom(_, _, _)
BatchVolumeFrom(inp, sg, k) ==
    IF k > Len(components) THEN Zero
    ELSE FracPlus(Frac(inp[components[k]], 10 * sg[components[k]]),
                  BatchVolumeFrom(inp, sg, k + 1))

BatchVolume == BatchVolumeFrom(input_data, sg_data, 1)

BatchVolumeAccepted ==
    FracLeq(<<95, 100>>, BatchVolume) /\ FracLeq(BatchVolume, <<105, 100>>)

\* C1: the pass goes on to the prediction sweep if and only if
\* 0.30 <= water_binder_ratio <= 0.70 and 0.95 <= batch_volume <= 1.05, both
\* endpoints accepted; a pass that stops has assembled no feature vector,
\* called no predictor and rendered neither the table nor the chart.
C1_SweepIffBothGates ==
    /\ pc \in AfterGates => RatioAccepted /\ BatchVolumeAccepted
    /\ pc = "stopped" => ~(RatioAccepted /\ BatchVolumeAccepted)
    /\ pc \in BeforeGates \cup {"stopped"} =>
          /\ calls = <<>>
          /\ ~Emitted("table") /\ ~Emitted("chart") /\ ~Emitted("prediction_error")
          /\ table_html = <<>>
          /\ fig = NoFig

\* C2: the number of collected predictions is at most the number N of time
\* samples; after the sweep it is N if and only if no predictor call failed;
\* if the k-th call fails, exactly k-1 predictions are collected and the
\* k-th call is the last one of the pass.
C2_SweepLength ==
    pc \in InSweepOrLater =>
        /\ Len(predicted_scs_for_graph) <= Len(graph_exposure_times)
        /\ pc \in AfterSweep =>
              (Len(predicted_scs_for_graph) = Len(graph_exposure_times)
                  <=> ~Emitted("prediction_error"))
        /\ Emitted("prediction_error") =>
              /\ failed > 0
              /\ Len(predicted_scs_for_graph) = failed - 1
              /\ Len(calls) = failed
              /\ pc \in AfterSweep
        /\ ~Emitted("prediction_error") =>
              /\ failed = 0
              /\ Len(calls) = Len(predicted_scs_for_graph)

\* The third call failed and the pass ended with two collected predictions
C2_Witness ==
    /\ pc = "done"
    /\ failed = 3
    /\ Len(predicted_scs_for_graph) = 2
    /\ Len(calls) = 3

\* C3: when binder_mass is 0, water_binder_ratio is exactly 0 for every Water,
\* the ratio gate fails with the out-of-range error, and the pass assembles no
\* feature vector and calls no predictor.
C3_ZeroBinder ==
    (pc \notin {"step1", "step2"} /\ BinderMass(input_data) = 0) =>
        /\ binder_mass = 0
        /\ water_binder_ratio = <<0, 1>>
        /\ pc \in {"ratio_check", "stopped"}
        /\ pc = "stopped" => out = <<"ratio_write", "ratio_error">>
        /\ calls = <<>>

\* A pass with no binder and Water > 0 has been stopped by the ratio gate
C3_Witness ==
    /\ pc = "stopped"
    /\ binder_mass = 0
    /\ input_data["Water"] > 0
    /\ Emitted("ratio_error")

\* The 15 fields of the contract with the predictor, in their order
CanonicalFields ==
    <<"Cement", "Fine aggregate", "Coarse aggregate", "Water",
      "Water-binder ratio", "Superplasticizer", "Fly ash", "Silica fume",
      "Blast furnace slag", "Cl content in seawater", "Annual temperature",
      "Exposure time", "Tidal zone", "Splash zone", "Submerged zone">>

\* The value field f has for the inputs of this pass and exposure time t
CanonicalValue(f, t) ==
    CASE f \in ComponentNames         -> input_data[f]
      [] f = "Water-binder ratio"     ->
            WaterBinderRatio(input_data, BinderMass(input_data))
      [] f = "Cl content in seawater" -> Cl_content
      [] f = "Annual temperature"     -> temperature
      [] f = "Exposure time"          -> t
      [] f = "Tidal zone"             -> IF zone = "Tidal zone" THEN 1 ELSE 0
      [] f = "Splash zone"            -> IF zone = "Splash zone" THEN 1 ELSE 0
      [] f = "Submerged zone"         -> IF zone = "Submerged zone" THEN 1 ELSE 0

\* C4: every frame handed to the predictor has exactly the 15 canonical fields
\* in the canonical order, whatever the insertion order of the row mapping,
\* and its values are determined by the inputs of the pass and the exposure
\* time alone.
C4_CanonicalOrder ==
    \A k \in 1..Len(calls) :
        /\ Len(calls[k]) = 15
        /\ Columns(calls[k]) = CanonicalFields
        /\ \A j \in 1..15 :
              calls[k][j][2] = CanonicalValue(CanonicalFields[j],
                                              graph_exposure_times[k])

\* A full sweep whose row mappings were not built in the canonical order
C4_Witness ==
    /\ rowOrder # LiteralOrder
    /\ Len(calls) = Len(graph_exposure_times)
    /\ failed = 0

OneHot == {<<1, 0, 0>>, <<0, 1, 0>>, <<0, 0, 1>>}

ZoneTriple(df) == <<df[13][2], df[14][2], df[15][2]>>

\* C5: the encoding of the selected zone has exactly one flag equal to 1 and
\* the other two equal to 0, the Splash zone gives (0,1,0), and every frame
\* of the pass carries that triple in positions 13 to 15.
C5_ZoneEncoding ==
    zone_flags # Unbound =>
        /\ zone_flags \in OneHot
        /\ zone_flags[1] = 1 <=> zone = "Tidal zone"
        /\ zone_flags[2] = 1 <=> zone = "Splash zone"
        /\ zone_flags[3] = 1 <=> zone = "Submerged zone"
        /\ \A k \in 1..Len(calls) :
              /\ ZoneTriple(calls[k]) = zone_flags
              /\ <<calls[k][13][1], calls[k][14][1], calls[k][15][1]>>
                    = <<"Tidal zone", "Splash zone", "Submerged zone">>

\* A full sweep in the Splash zone
C5_Witness ==
    /\ zone = "Splash zone"
    /\ Len(calls) = Len(graph_exposure_times)
    /\ \A k \in 1..Len(calls) : ZoneTriple(calls[k]) = <<0, 1, 0>>

\* C6 as stated: the predictor is called at most once per time sample, in the
\* order of the time list, never again after a failure, and the i-th
\* collected prediction is the predictor's result for the frame whose
\* Exposure time is the i-th input time.
C6_CollectedIsResult ==
    pc \in InSweepOrLater =>
        /\ Len(calls) <= Len(graph_exposure_times)
        /\ \A k \in 1..Len(calls) :
              calls[k][12] = <<"Exposure time", graph_exposure_times[k]>>
        /\ \A k \in 1..Len(predicted_scs_for_graph) :
              predicted_scs_for_graph[k] = predict(model, calls[k])

\* C6 amended: as C6, but the i-th collected prediction is the predictor's
\* result rounded to three decimals.
C6_CollectedIsRoundedResult ==
    pc \in InSweepOrLater =>
        /\ Len(calls) <= Len(graph_exposure_times)
        /\ \A k \in 1..Len(calls) :
              calls[k][12] = <<"Exposure time", graph_exposure_times[k]>>
        /\ \A k \in 1..Len(predicted_scs_for_graph) :
              /\ predict(model, calls[k]) # Fail
              /\ predicted_scs_for_graph[k] % 10 = 0
              /\ predicted_scs_for_graph[k] - predict(model, calls[k]) \in -5..5
        /\ failed # 0 => Len(calls) = failed /\ predict(model, calls[failed]) = Fail

\* A truncated sweep: two results collected in order, the third call failed
C6_Witness ==
    /\ pc = "done"
    /\ failed = 3
    /\ Len(predicted_scs_for_graph) = 2
    /\ predicted_scs_for_graph[1] # predict(model, calls[1])

SameInputsAsPrev ==
    /\ prev.stage # "none"
    /\ prev.input_data = input_data
    /\ prev.sg_data = sg_data
    /\ prev.env = IF zone_flags = Unbound THEN Unbound
                  ELSE <<Cl_content, temperature, zone>>

\* C7: a pass run again with unchanged inputs ends as the previous one did and
\* shows the same page, the same table rows and the same chart trace, also
\* when the previous pass was stopped by a gate or cut short by a prediction
\* failure.
C7_Idempotent ==
    (pc \in {"stopped", "done"} /\ SameInputsAsPrev) =>
        /\ prev.stage = pc
        /\ prev.failed = failed
        /\ prev.out = out
        /\ prev.table_html = table_html
        /\ prev.fig = fig

\* A pass repeated with the inputs of a pass that a prediction failure cut
\* short after some results
C7_Witness ==
    /\ pc = "done"
    /\ SameInputsAsPrev
    /\ prev.failed = 3
    /\ Len(fig.y) = 2

SameButWater ==
    /\ prev.stage # "none"
    /\ water_binder_ratio # Unbound
    /\ prev.sg_data = sg_data
    /\ \A n \in ComponentNames \ {"Water"} : prev.input_data[n] = input_data[n]

RatioGateFailed == pc = "stopped" /\ out = <<"ratio_write", "ratio_error">>

\* C8 as stated: for fixed other inputs, more Water gives a strictly larger
\* water_binder_ratio, and once the ratio is above the range the gate fails
\* for every larger Water.
C8_MonotonicInWater ==
    (SameButWater /\ prev.input_data["Water"] < input_data["Water"]) =>
        /\ FracLess(prev.water_binder_ratio, water_binder_ratio)
        /\ (FracLess(<<7, 10>>, prev.water_binder_ratio) /\ pc # "ratio_check")
              => RatioGateFailed

\* C8 amended: the same for passes whose binder_mass is positive, where there
\* also is a Water value above which the gate fails; with binder_mass 0 the
\* ratio is 0 for every Water and the gate fails.
C8_MonotonicInWaterPositiveBinder ==
    /\ (SameButWater /\ prev.input_data["Water"] < input_data["Water"]
            /\ binder_mass > 0) =>
          /\ FracLess(prev.water_binder_ratio, water_binder_ratio)
          /\ (FracLess(<<7, 10>>, prev.water_binder_ratio) /\ pc # "ratio_check")
                => RatioGateFailed
    /\ (water_binder_ratio # Unbound /\ binder_mass > 0) =>
          \E w \in MassChoices["Water"] :
              /\ 7 * binder_mass < 10 * w
              /\ (input_data["Water"] >= w /\ pc # "ratio_check")
                    => RatioGateFailed
    /\ (water_binder_ratio # Unbound /\ binder_mass = 0) =>
          /\ water_binder_ratio = <<0, 1>>
          /\ pc # "ratio_check" => RatioGateFailed

\* The previous pass passed the ratio gate; this one, with more Water and
\* everything else the same, failed it
C8_Witness ==
    /\ SameButWater
    /\ binder_mass > 0
    /\ prev.input_data["Water"] < input_data["Water"]
    /\ Len(prev.out) >= 2 /\ prev.out[2] = "ratio_success"
    /\ RatioGateFailed

\* C9: the ratio gate comes first: a pass whose ratio is out of range stops
\* before the batch volume is computed, reported or checked, and the volume
\* check is reached only after the ratio check has passed.
C9_RatioBeforeVolume ==
    /\ (pc \notin {"step1", "step2", "ratio_check"} /\ ~RatioAccepted) =>
          /\ pc = "stopped"
          /\ volume = Unbound
          /\ out = <<"ratio_write", "ratio_error">>
    /\ (volume # Unbound \/ pc \in {"volume", "volume_check"}
            \/ Emitted("volume_write")) =>
          /\ RatioAccepted
          /\ Len(out) >= 2
          /\ out[1] = "ratio_write" /\ out[2] = "ratio_success"
    /\ Emitted("volume_write") => volume # Unbound

\* A pass stopped by the ratio gate whose batch volume was in range and was
\* never computed
C9_Witness ==
    /\ RatioGateFailed
    /\ VolumeAccepted
    /\ volume = Unbound

\* C10: what a pass that reaches rendering hands to the table and to the chart
\* is a sequence of (exposure_time, predicted_value) pairs: each value with
\* the time it was predicted for, as many times as values.
C10_RenderedPairs ==
    pc = "done" =>
        /\ Len(fig.x) = Len(fig.y)
        /\ \A k \in 1..Len(fig.y) :
              /\ fig.x[k] = calls[k][12][2]
              /\ fig.y[k] = Round3(model.dtype, predict(model, calls[k]))
        /\ \A k \in 1..Len(table_html) :
              /\ table_html[k][1] = calls[k][12][2]
              /\ table_html[k][2] = Round3(model.dtype, predict(model, calls[k]))

====
